---------------------------- MODULE Spec2Model ----------------------------
(***************************************************************************)
(* Memento mori (src/memento_mori.py): from a date of birth the program    *)
(* computes the age in years, the remaining lifespan under an assumed life *)
(* expectancy and the days until the next birthday, and shows a message.   *)
(*                                                                         *)
(* A date is a record [year, month, day] of the proleptic Gregorian        *)
(* calendar, as datetime.date is; date arithmetic goes through the         *)
(* ordinal (date.toordinal), as it does in CPython.                        *)
(***************************************************************************)
EXTENDS Integers, Sequences, FiniteSets

(***************************************************************************)
(* Bounds of the model.                                                    *)
(***************************************************************************)
\* today's year ranges over FirstTodayYear .. FirstTodayYear + TodayYearSpan:
\* a year before a leap year, a leap year, a year after one
FirstTodayYear == 2023

TodayYearSpan == 2

\* how many times the calendar date may advance during one run of main
MaxMidnights == 1

\* the months and the days of the month the dates are drawn from
Months == {1, 2, 3, 6, 7, 12}

Days == {1, 2, 15, 28, 29, 31}

\* the years of birth: of an old, a grown-up and a new-born user
BirthYears == {1944, 2000, 2024}

\* the life expectancies the calculator is called with
LifeExpectancies == {0 - 1, 0, 1, 80}

(***************************************************************************)
(* datetime.date                                                           *)
(***************************************************************************)
IsLeap(year) == year % 4 = 0 /\ (year % 100 # 0 \/ year % 400 = 0)

DaysInMonth(year, month) ==
    IF month = 2 THEN (IF IsLeap(year) THEN 29 ELSE 28)
    ELSE IF month \in {4, 6, 9, 11} THEN 30 ELSE 31

DaysBeforeYear(year) ==
    LET y == year - 1
    IN  y * 365 + (y \div 4) - (y \div 100) + (y \div 400)

DaysBeforeMonthTable == <<0, 31, 59, 90, 120, 151, 181, 212, 243, 273, 304, 334>>

DaysBeforeMonth(year, month) ==
    DaysBeforeMonthTable[month] + (IF month > 2 /\ IsLeap(year) THEN 1 ELSE 0)

\* date(year, month, day): the constructor raises ValueError on a day the
\* month does not have
IsValidDate(year, month, day) ==
    /\ month \in 1..12
    /\ day \in 1..DaysInMonth(year, month)

Date(year, month, day) == [year |-> year, month |-> month, day |-> day]

\* date.toordinal()
ToOrdinal(d) == DaysBeforeYear(d.year) + DaysBeforeMonth(d.year, d.month) + d.day

\* date1 - date2, a timedelta; its .days
DaysBetween(later, earlier) == ToOrdinal(later) - ToOrdinal(earlier)

\* date + timedelta(days = 1)
NextDay(d) ==
    IF d.day < DaysInMonth(d.year, d.month) THEN Date(d.year, d.month, d.day + 1)
    ELSE IF d.month < 12 THEN Date(d.year, d.month + 1, 1)
    ELSE Date(d.year + 1, 1, 1)

\* date - timedelta(days = 1)
PrevDay(d) ==
    IF d.day > 1 THEN Date(d.year, d.month, d.day - 1)
    ELSE IF d.month > 1 THEN Date(d.year, d.month - 1, DaysInMonth(d.year, d.month - 1))
    ELSE Date(d.year - 1, 12, 31)

\* date + relativedelta(years = n): the year moves, the month stays, and the
\* day is cut to the last day the month has in the new year
AddYears(d, n) ==
    LET year == d.year + n
        last == DaysInMonth(year, d.month)
    IN  Date(year, d.month, IF d.day < last THEN d.day ELSE last)

(***************************************************************************)
(* round(n / d) of Python 3 for d > 0: to the nearest integer, a tie to    *)
(* the even one.  The quotients rounded here are quotients of integers     *)
(* (seconds over seconds, days over 7) that are never within 1e-7 of a     *)
(* tie, so that the double-precision division rounds as the exact one.     *)
(***************************************************************************)
Round(n, d) ==
    LET q == n \div d
        r == n - q * d
    IN  IF 2 * r < d THEN q
        ELSE IF 2 * r > d THEN q + 1
        ELSE IF q % 2 = 0 THEN q ELSE q + 1

\* 365.2425 days, the mean year the code divides by, is 146097 days in 400
\* years: seconds / (365.2425 * 24 * 3600) = days * 400 / 146097 (the
\* products in seconds do not fit the model checker's integers)
MeanYearsPerCycle == 400

DaysPerCycle == 146097

(***************************************************************************)
(* The calculator.  Each function reads date.today() once, on entry; the   *)
(* value read is the parameter today_.                                     *)
(***************************************************************************)
\* get_age with the subtraction turned round, date_of_birth - today
get_age_turned_round(birth, today_) ==
    LET age_days == DaysBetween(birth, today_)
    IN  Round(age_days * MeanYearsPerCycle, DaysPerCycle)

\* get_age: the days lived, in seconds, over the seconds of a mean year,
\* rounded
get_age(birth, today_) ==
    LET age_days == DaysBetween(today_, birth)
    IN  Round(age_days * MeanYearsPerCycle, DaysPerCycle)

\* the date of death with Feb 28 standing in for a birth on Feb 29 in every
\* year, as get_days_until_birthday has it
DateOfDeath_always_feb28(birth, expectancy) ==
    IF birth.month = 2 /\ birth.day = 29
    THEN Date(birth.year + expectancy, 2, 28)
    ELSE AddYears(birth, expectancy)

\* get_remaining_lifespan: the date of death it projects
DateOfDeath(birth, expectancy) == AddYears(birth, expectancy)

\* get_remaining_lifespan with the subtraction turned round,
\* today - date_of_death
get_remaining_lifespan_turned_round(birth, expectancy, today_) ==
    LET remaining_days == DaysBetween(today_, DateOfDeath(birth, expectancy))
    IN  [days  |-> remaining_days,
         weeks |-> Round(remaining_days, 7),
         years |-> Round(remaining_days * MeanYearsPerCycle, DaysPerCycle)]

\* get_remaining_lifespan counting from the date of birth, not from today
get_remaining_lifespan_from_birth(birth, expectancy, today_) ==
    LET remaining_days == DaysBetween(DateOfDeath(birth, expectancy), birth)
    IN  [days  |-> remaining_days,
         weeks |-> Round(remaining_days, 7),
         years |-> Round(remaining_days * MeanYearsPerCycle, DaysPerCycle)]

\* get_remaining_lifespan: the record it returns.  No value of
\* life_expectancy is refused.
get_remaining_lifespan(birth, expectancy, today_) ==
    LET remaining_days == DaysBetween(DateOfDeath(birth, expectancy), today_)
    IN  [days  |-> remaining_days,
         weeks |-> Round(remaining_days, 7),
         years |-> Round(remaining_days * MeanYearsPerCycle, DaysPerCycle)]

ValueError == "ValueError"

\* the birthdays built without the case of Feb 29
BirthdayMonthDay_no_feb29_case(birth) ==
    [month |-> birth.month, day |-> birth.day]

\* get_days_until_birthday, lines 62 to 75: the month and the day of the
\* two birthdays it builds, Feb 28 for a birth on Feb 29
BirthdayMonthDay(birth) ==
    IF ~(birth.month = 2 /\ birth.day = 29)
    THEN [month |-> birth.month, day |-> birth.day]
    ELSE [month |-> 2, day |-> 28]

\* get_days_until_birthday: date() raises ValueError when it is given a day
\* its month does not have
RaisesValueError(birth, today_) ==
    LET md == BirthdayMonthDay(birth)
    IN  \/ ~IsValidDate(today_.year, md.month, md.day)
        \/ ~IsValidDate(today_.year + 1, md.month, md.day)

\* get_days_until_birthday taking a birthday that is today for passed
get_days_until_birthday_today_passed(birth, today_) ==
    LET md == BirthdayMonthDay(birth)
        birthday_this_year == Date(today_.year, md.month, md.day)
        birthday_next_year == Date(today_.year + 1, md.month, md.day)
        next_birthday ==
            IF ToOrdinal(birthday_this_year) <= ToOrdinal(today_)
            THEN birthday_next_year
            ELSE birthday_this_year
    IN  DaysBetween(next_birthday, today_)

\* get_days_until_birthday: the number it returns when nothing is raised
get_days_until_birthday(birth, today_) ==
    LET md == BirthdayMonthDay(birth)
        birthday_this_year == Date(today_.year, md.month, md.day)
        birthday_next_year == Date(today_.year + 1, md.month, md.day)
        next_birthday ==
            IF ToOrdinal(birthday_this_year) < ToOrdinal(today_)
            THEN birthday_next_year
            ELSE birthday_this_year
    IN  DaysBetween(next_birthday, today_)

\* show_message: what the message states.  turn is the age announced for
\* the next birthday, lifespan the remaining lifespan, each Unset when its
\* lines are left out.
Unset == <<>>

Some(v) == <<v>>

show_message(age_, days_, expectancy, remaining_, today_) ==
    [age       |-> age_,
     turn      |-> IF days_ # 0 THEN Some(age_ + 1) ELSE Unset,
     when      |-> IF days_ = 0 THEN "never"
                   ELSE IF days_ > 1 THEN "in days" ELSE "tomorrow",
     next_year |-> today_.year + 1,
     lifespan  |-> IF age_ < expectancy THEN Some(remaining_) ELSE Unset]

(***************************************************************************)
(* get_date_of_birth: the dates the date input lets the user pick, from    *)
(* 100 years ago to yesterday, and the date it starts with, 20 years ago.  *)
(***************************************************************************)
MinValueYears == 100

DefaultValueYears == 20

DefaultLifeExpectancy == 80

MinValue(today_) == AddYears(today_, 0 - MinValueYears)

MaxValue(today_) == PrevDay(today_)

DefaultValue(today_) == AddYears(today_, 0 - DefaultValueYears)

(***************************************************************************)
(* The dates of the model.                                                 *)
(***************************************************************************)
DatesOf(years) ==
    {Date(y, m, d) : <<y, m, d>> \in
        {t \in years \X Months \X Days : IsValidDate(t[1], t[2], t[3])}}

TodayYears == FirstTodayYear .. (FirstTodayYear + TodayYearSpan)

Todays == DatesOf(TodayYears)

BirthDates == DatesOf(BirthYears)

\* main runs in the leap year among today's years
MainTodays == {t \in Todays : IsLeap(t.year)}

(***************************************************************************)
(* State.                                                                  *)
(***************************************************************************)
VARIABLES
    today,                \* the host's calendar date, date.today()
    midnights,            \* how often the date has advanced
    pc,                   \* the statement of main that runs next
    life_expectancy,      \* main's parameter
    date_of_birth,        \* main's locals, Unset or Some(value) ...
    age,
    remaining,
    days_until_birthday,
    button_clicked,
    today_age,            \* get_age's local today
    today_remaining,      \* get_remaining_lifespan's local today
    date_of_death,        \* get_remaining_lifespan's local date_of_death
    today_birthday,       \* get_days_until_birthday's local today
    message               \* what show_message has displayed

vars == <<today, midnights, pc, life_expectancy, date_of_birth, age, remaining,
          days_until_birthday, button_clicked, today_age, today_remaining,
          date_of_death, today_birthday, message>>

NoResults ==
    /\ age = Unset
    /\ remaining = Unset
    /\ days_until_birthday = Unset
    /\ button_clicked = FALSE
    /\ today_age = Unset
    /\ today_remaining = Unset
    /\ date_of_death = Unset
    /\ today_birthday = Unset
    /\ message = Unset

\* The three calculator calls of main, lines 131 to 133, on a date of birth,
\* a life expectancy and a today drawn from the bounded sets.
Init ==
    /\ today \in Todays
    /\ midnights = 0
    /\ pc = "get_age"
    /\ life_expectancy \in LifeExpectancies
    /\ date_of_birth \in {Some(b) : b \in BirthDates}
    /\ NoResults

\* A run of main(): the date of birth is still to be entered.
MainInit ==
    /\ today \in MainTodays
    /\ midnights = 0
    /\ pc = "get_date_of_birth"
    /\ life_expectancy = DefaultLifeExpectancy
    /\ date_of_birth = Unset
    /\ NoResults

(***************************************************************************)
(* Actions.                                                                *)
(***************************************************************************)
\* line 130: the date input returns its starting value or a date the user
\* picked between its bounds
GetDateOfBirth ==
    /\ pc = "get_date_of_birth"
    /\ \E b \in {DefaultValue(today)} \cup BirthDates :
          /\ ToOrdinal(MinValue(today)) <= ToOrdinal(b)
          /\ ToOrdinal(b) <= ToOrdinal(MaxValue(today))
          /\ date_of_birth' = Some(b)
    /\ pc' = "get_age"
    /\ UNCHANGED <<today, midnights, life_expectancy, age, remaining,
                   days_until_birthday, button_clicked, today_age,
                   today_remaining, date_of_death, today_birthday, message>>

\* line 131
GetAge ==
    /\ pc = "get_age"
    /\ today_age' = Some(today)
    /\ age' = Some(get_age(date_of_birth[1], today))
    /\ pc' = "get_remaining_lifespan"
    /\ UNCHANGED <<today, midnights, life_expectancy, date_of_birth, remaining,
                   days_until_birthday, button_clicked, today_remaining,
                   date_of_death, today_birthday, message>>

\* line 132
GetRemainingLifespan ==
    /\ pc = "get_remaining_lifespan"
    /\ today_remaining' = Some(today)
    /\ date_of_death' = Some(DateOfDeath(date_of_birth[1], life_expectancy))
    /\ remaining' =
          Some(get_remaining_lifespan(date_of_birth[1], life_expectancy, today))
    /\ pc' = "get_days_until_birthday"
    /\ UNCHANGED <<today, midnights, life_expectancy, date_of_birth, age,
                   days_until_birthday, button_clicked, today_age,
                   today_birthday, message>>

\* line 133; a ValueError ends the run
GetDaysUntilBirthday ==
    /\ pc = "get_days_until_birthday"
    /\ today_birthday' = Some(today)
    /\ IF RaisesValueError(date_of_birth[1], today)
       THEN /\ pc' = ValueError
            /\ UNCHANGED days_until_birthday
       ELSE /\ pc' = "button"
            /\ days_until_birthday' =
                  Some(get_days_until_birthday(date_of_birth[1], today))
    /\ UNCHANGED <<today, midnights, life_expectancy, date_of_birth, age,
                   remaining, button_clicked, today_age, today_remaining,
                   date_of_death, message>>

\* lines 135 to 138: the button was clicked, or it was not
Button ==
    /\ pc = "button"
    /\ \E clicked \in BOOLEAN :
          /\ button_clicked' = clicked
          /\ pc' = IF clicked THEN "show_message" ELSE "done"
    /\ UNCHANGED <<today, midnights, life_expectancy, date_of_birth, age,
                   remaining, days_until_birthday, today_age, today_remaining,
                   date_of_death, today_birthday, message>>

\* line 139
ShowMessage ==
    /\ pc = "show_message"
    /\ message' = Some(show_message(age[1], days_until_birthday[1],
                                    life_expectancy, remaining[1], today))
    /\ pc' = "done"
    /\ UNCHANGED <<today, midnights, life_expectancy, date_of_birth, age,
                   remaining, days_until_birthday, button_clicked, today_age,
                   today_remaining, date_of_death, today_birthday>>

\* the host's calendar date advances while main runs
Midnight ==
    /\ pc \notin {"done", ValueError}
    /\ midnights < MaxMidnights
    /\ today' = NextDay(today)
    /\ midnights' = midnights + 1
    /\ UNCHANGED <<pc, life_expectancy, date_of_birth, age, remaining,
                   days_until_birthday, button_clicked, today_age,
                   today_remaining, date_of_death, today_birthday, message>>

Next ==
    \/ GetAge
    \/ GetRemainingLifespan
    \/ GetDaysUntilBirthday

Spec == Init /\ [][Next]_vars

MainNext ==
    \/ GetDateOfBirth
    \/ GetAge
    \/ GetRemainingLifespan
    \/ GetDaysUntilBirthday
    \/ Button
    \/ ShowMessage
    \/ Midnight

MainSpec == MainInit /\ [][MainNext]_vars

(***************************************************************************)
(* Properties.                                                             *)
(***************************************************************************)
Before(d1, d2) == ToOrdinal(d1) < ToOrdinal(d2)

NotAfter(d1, d2) == ToOrdinal(d1) <= ToOrdinal(d2)

Abs(n) == IF n < 0 THEN 0 - n ELSE n

\* C1: for a date of birth equal to today, every calendar date and Feb 29
\* of a leap year among them, get_age returns 0 and get_days_until_birthday
\* returns 0.
C1_BornToday ==
    /\ (age # Unset /\ date_of_birth[1] = today_age[1]) => age[1] = 0
    /\ (days_until_birthday # Unset /\ date_of_birth[1] = today_birthday[1])
          => days_until_birthday[1] = 0

\* C2: for every date of birth and every today, get_days_until_birthday
\* returns an integer d with 0 <= d < 366.
C2_DaysInRange ==
    days_until_birthday # Unset =>
        (0 <= days_until_birthday[1] /\ days_until_birthday[1] < 366)

\* the longest wait: the birthday was yesterday and a Feb 29 lies ahead
C2_Witness == days_until_birthday = Some(365)

C3_Scenario ==
    /\ remaining # Unset
    /\ date_of_birth = Some(Date(2000, 2, 29))
    /\ life_expectancy = 80
    /\ today_remaining = Some(Date(2024, 3, 1))

\* C3, as claimed: for the date of birth 2000-02-29, life expectancy 80 and
\* today 2024-03-01, the projected date of death is 2080-02-28 and days is
\* the day count from 2024-03-01 to 2080-02-28.
C3_DeathOnFeb28 ==
    C3_Scenario =>
        /\ date_of_death = Some(Date(2080, 2, 28))
        /\ remaining[1].days = DaysBetween(Date(2080, 2, 28), Date(2024, 3, 1))

\* C3, amended: for the date of birth 2000-02-29, life expectancy 80 and
\* today 2024-03-01, the projected date of death is 2080-02-29 (2080 is a
\* leap year, nothing falls back) and days is the day count from 2024-03-01
\* to 2080-02-29, which is 20453.
C3_DeathOnFeb29 ==
    C3_Scenario =>
        /\ date_of_death = Some(Date(2080, 2, 29))
        /\ remaining[1].days = DaysBetween(Date(2080, 2, 29), Date(2024, 3, 1))
        /\ remaining[1].days = 20453

C3_Witness == C3_Scenario

\* C4: a call of get_remaining_lifespan with life_expectancy <= 0 is
\* rejected and returns no days/weeks/years record.
C4_NonPositiveRejected ==
    life_expectancy <= 0 => remaining = Unset

\* C5, as claimed: days, weeks and years are all non-negative whenever the
\* projected date of death is after today, and all negative whenever it is
\* before today.  Stated of the calls the input collection allows: a
\* positive life expectancy and a date of birth not after today.
C5_SignAllNegative ==
    (/\ remaining # Unset
     /\ life_expectancy > 0
     /\ NotAfter(date_of_birth[1], today_remaining[1])) =>
        /\ Before(today_remaining[1], date_of_death[1]) =>
              /\ remaining[1].days >= 0
              /\ remaining[1].weeks >= 0
              /\ remaining[1].years >= 0
        /\ Before(date_of_death[1], today_remaining[1]) =>
              /\ remaining[1].days < 0
              /\ remaining[1].weeks < 0
              /\ remaining[1].years < 0

\* C5, amended: days, weeks and years are all non-negative whenever the
\* projected date of death is after today; whenever it is before today,
\* days is negative and weeks and years are negative or zero (they round
\* to zero within 3 days and within half a year of it).
C5_SignPreserved ==
    remaining # Unset =>
        /\ Before(today_remaining[1], date_of_death[1]) =>
              /\ remaining[1].days > 0
              /\ remaining[1].weeks >= 0
              /\ remaining[1].years >= 0
        /\ Before(date_of_death[1], today_remaining[1]) =>
              /\ remaining[1].days < 0
              /\ remaining[1].weeks <= 0
              /\ remaining[1].years <= 0

\* the projected date of death is just past, and the weeks round to zero
C5_Witness ==
    /\ remaining # Unset
    /\ Before(date_of_death[1], today_remaining[1])
    /\ remaining[1].weeks = 0
    /\ remaining[1].years = 0

\* C6: for every date of birth not later than today and every positive life
\* expectancy N, the years of get_remaining_lifespan differ from
\* N - get_age by at most 1, both computed against the same today.
C6_YearsAddUp ==
    (/\ remaining # Unset
     /\ today_age = today_remaining
     /\ NotAfter(date_of_birth[1], today_age[1])
     /\ life_expectancy > 0)
        => Abs(remaining[1].years - (life_expectancy - age[1])) <= 1

\* both the age and the remaining years were rounded up
C6_Witness ==
    /\ remaining # Unset
    /\ NotAfter(date_of_birth[1], today_age[1])
    /\ life_expectancy > 0
    /\ remaining[1].years - (life_expectancy - age[1]) = 1

\* C7: with today held fixed, get_age does not decrease as the date of
\* birth moves earlier: get_age(b1) >= get_age(b2) for b1 <= b2 <= today.
\* b2 is the date of birth get_age has just returned the age of, b1 every
\* earlier date of birth.
C7_AgeMonotone ==
    (pc = "get_remaining_lifespan" /\ NotAfter(date_of_birth[1], today_age[1])) =>
        \A b1 \in BirthDates :
            NotAfter(b1, date_of_birth[1]) => get_age(b1, today_age[1]) >= age[1]

\* an earlier date of birth that gives a greater age
C7_Witness ==
    /\ pc = "get_remaining_lifespan"
    /\ NotAfter(date_of_birth[1], today_age[1])
    /\ \E b1 \in BirthDates :
          Before(b1, date_of_birth[1]) /\ get_age(b1, today_age[1]) > age[1]

\* the days from d to the earliest date on or after d with the month and
\* the day given, counted month by month: the day is either still to come
\* in d's month, or it is counted from the first of the next month
RECURSIVE DaysUntilMonthDay(_, _, _)
DaysUntilMonthDay(d, month, day) ==
    IF d.month = month /\ d.day <= day /\ day <= DaysInMonth(d.year, d.month)
    THEN day - d.day
    ELSE LET first == IF d.month < 12 THEN Date(d.year, d.month + 1, 1)
                      ELSE Date(d.year + 1, 1, 1)
         IN  (DaysInMonth(d.year, d.month) - d.day + 1)
                 + DaysUntilMonthDay(first, month, day)

\* C8: for every date of birth and every today, get_days_until_birthday
\* raises no error and returns the number of days from today to the
\* earliest date on or after today whose month and day are those of the
\* birth, Feb 28 standing in for Feb 29 in leap and non-leap years alike.
C8_NextBirthday ==
    /\ pc # ValueError
    /\ days_until_birthday # Unset =>
          LET birth == date_of_birth[1]
              feb29 == birth.month = 2 /\ birth.day = 29
          IN  days_until_birthday[1] =
                  DaysUntilMonthDay(today_birthday[1], birth.month,
                                    IF feb29 THEN 28 ELSE birth.day)

\* born on Feb 29, asked on Feb 29: Feb 28 of the next year is 365 days off
C8_Witness ==
    /\ days_until_birthday = Some(365)
    /\ date_of_birth[1].month = 2 /\ date_of_birth[1].day = 29
    /\ today_birthday[1].month = 2 /\ today_birthday[1].day = 29

\* C9: within one run of main, the age, the remaining lifespan and the days
\* until the birthday passed to show_message are all computed against one
\* and the same today, also when midnight passes between the calls.
C9_OneToday ==
    message # Unset =>
        /\ today_age = today_remaining
        /\ today_remaining = today_birthday

\* the year of the date that is days after d, for days < 366
YearAfter(d, days) ==
    IF ToOrdinal(d) + days > ToOrdinal(Date(d.year, 12, 31))
    THEN d.year + 1 ELSE d.year

\* C10: whenever show_message displays the next-birthday line, the age it
\* announces, age + 1, is the age the user reaches on that birthday: the
\* year of the next birthday minus the year of birth.  Stated of the runs
\* in which no midnight passed between get_age and get_days_until_birthday.
C10_AnnouncedAge ==
    (/\ message # Unset
     /\ message[1].turn # Unset
     /\ today_age = today_birthday) =>
        message[1].turn[1] =
            YearAfter(today_birthday[1], days_until_birthday[1])
                - date_of_birth[1].year

=============================================================================
